---- MODULE Spec2Model ----
(***************************************************************************)
(* A model of the scoring and classification core of sqp_analyzer:         *)
(* DiagnosticAnalyzer (analyzers/diagnostic.py) and PlacementRecommender   *)
(* (analyzers/placement.py) over the records of models.py, under the       *)
(* Thresholds of config.py.                                                *)
(*                                                                         *)
(* Numbers.  Shares and share thresholds are whole percents (20 is 20.0).  *)
(* An opportunity score is kept as 100 times its value, so that            *)
(* volume * (1 - share / 100) is the integer volume * (100 - share).       *)
(* A volume percentile is the exact fraction num / den (den > 0); it is    *)
(* compared with a threshold by cross-multiplication.  The rounding of     *)
(* IEEE doubles is not modelled.                                           *)
(***************************************************************************)
EXTENDS Integers, Sequences, FiniteSets, TLC

VARIABLES
    thresholds,     \* analyzer.thresholds, the injected Thresholds
    records,        \* snapshot.records, in ingestion order
    price_flags,    \* the price_flags argument of DiagnosticAnalyzer.analyze
    diagnostics,    \* the list returned by DiagnosticAnalyzer.analyze
    placements,     \* the list returned by PlacementRecommender.analyze
    has_price_flags,\* the values of the local has_price_flag, per record
    percentiles,    \* the values of the local volume_percentile, per record
    pc,             \* "import", then "diagnosed" or "placed"; "calls" for direct calls
    call,           \* the last direct call of one of the pure methods
    diag_summary,   \* the dict returned by DiagnosticAnalyzer.summarize
    place_summary,  \* the dict returned by PlacementRecommender.summarize
    first_diagnostics, \* what the first call of DiagnosticAnalyzer.analyze returned
    first_placements,  \* what the first call of PlacementRecommender.analyze returned
    diag_runs,      \* how often DiagnosticAnalyzer.analyze has been called
    place_runs,     \* how often PlacementRecommender.analyze has been called
    sheet_diagnostics, \* the rows written to the SQP-Diagnostics tab
    sheet_placements,  \* the rows written to the SQP-Placements tab
    wait_pc,        \* wait_for_report: "idle", "loop" (at the while test),
                    \* "returned"
    max_wait,       \* its max_wait argument, seconds
    check_interval, \* its check_interval, seconds
    elapsed,        \* time.time() - start_time, seconds
    status,         \* res.payload.get("processingStatus") of the last poll
    doc_id,         \* res.payload.get("reportDocumentId") of the last poll
    wait_result,    \* "True" or "False" once returned, "none" before
    observed        \* the <<status, doc_id>> pairs the polls of this call saw

\* the summaries of one analysis
summaries == <<diag_summary, place_summary>>

\* what repeated runs and the sheet writer keep
run_vars == <<first_diagnostics, first_placements, diag_runs, place_runs,
              sheet_diagnostics, sheet_placements>>

\* the state of one call of wait_for_report
wait_vars == <<wait_pc, max_wait, check_interval, elapsed, status, doc_id,
               wait_result, observed>>

vars == <<thresholds, records, price_flags, diagnostics, has_price_flags,
          placements, percentiles, pc, call, summaries, run_vars, wait_vars>>

-----------------------------------------------------------------------------
(* Bounds of the model. *)

\* longest snapshot handed to DiagnosticAnalyzer.analyze and to the whole analysis
MaxRecords == 3
\* longest price_flags list
MaxFlags == 2
\* longest snapshot handed to PlacementRecommender.analyze
MaxPlaceRecords == 6
\* largest share (percent) tried in direct calls; the smallest is -1
MaxShare == 101
\* largest clicks_share (percent) tried in direct calls
MaxClicks == 6
\* largest snapshot size whose percentiles count/n are tried in direct calls
MaxDen == 7
\* how often each analyzer is run on one snapshot
MaxRuns == 2
\* longest snapshot listed by ascending volume
MaxAscendingRecords == 10
\* largest count in the summaries handed to calculate_health_score
MaxCount == 3
\* largest max_wait handed to wait_for_report, in steps of WaitStep seconds
MaxWaitSteps == 4

-----------------------------------------------------------------------------
(* Enumerations of models.py, by their values. *)

RankStatus == {"top_3", "page_1_high", "page_1_low", "invisible"}

DiagnosticType == {"ghost", "window_shopper", "price_problem", "healthy"}

\* in definition order, the order `for target in PlacementTarget` iterates in
PlacementTarget == <<"title", "bullets", "backend", "description">>

PriceSeverity == {"ok", "warning", "critical"}

-----------------------------------------------------------------------------
(* Thresholds. *)

DefaultThresholds ==
    [ rank_top_3_threshold           |-> 20,
      rank_page_1_high_threshold     |-> 10,
      rank_page_1_low_threshold      |-> 1,
      ghost_min_volume               |-> 500,
      ghost_max_imp_share            |-> 1,
      window_shopper_min_imp_share   |-> 10,
      window_shopper_max_click_share |-> 1,
      price_problem_min_imp_share    |-> 5,
      title_min_volume_percentile    |-> 80,
      title_min_click_share          |-> 5,
      title_top_volume_percentile    |-> 95,
      bullets_min_volume_percentile  |-> 50,
      backend_min_volume_percentile  |-> 20 ]

\* A configuration whose rules overlap: a record can satisfy the GHOST, the
\* WINDOW_SHOPPER and the PRICE_PROBLEM condition at once.
OverlapThresholds ==
    [ rank_top_3_threshold           |-> 30,
      rank_page_1_high_threshold     |-> 15,
      rank_page_1_low_threshold      |-> 5,
      ghost_min_volume               |-> 100,
      ghost_max_imp_share            |-> 15,
      window_shopper_min_imp_share   |-> 10,
      window_shopper_max_click_share |-> 3,
      price_problem_min_imp_share    |-> 5,
      title_min_volume_percentile    |-> 60,
      title_min_click_share          |-> 3,
      title_top_volume_percentile    |-> 90,
      bullets_min_volume_percentile  |-> 40,
      backend_min_volume_percentile  |-> 25 ]

\* A configuration whose cutoffs are not in descending order.
UnorderedThresholds ==
    [ rank_top_3_threshold           |-> 10,
      rank_page_1_high_threshold     |-> 20,
      rank_page_1_low_threshold      |-> 15,
      ghost_min_volume               |-> 1,
      ghost_max_imp_share            |-> 100,
      window_shopper_min_imp_share   |-> 0,
      window_shopper_max_click_share |-> 5,
      price_problem_min_imp_share    |-> 0,
      title_min_volume_percentile    |-> 30,
      title_min_click_share          |-> 0,
      title_top_volume_percentile    |-> 70,
      bullets_min_volume_percentile  |-> 20,
      backend_min_volume_percentile  |-> 50 ]

ThresholdConfigs == {DefaultThresholds, OverlapThresholds, UnorderedThresholds}

-----------------------------------------------------------------------------
(* Records. *)

SQPRecord(q, a, vol, imp, clk, pur) ==
    [ search_query      |-> q,
      asin              |-> a,
      search_volume     |-> vol,
      impressions_share |-> imp,
      clicks_share      |-> clk,
      purchases_share   |-> pur ]

PriceFlag(q, a, sev) ==
    [ search_query |-> q, asin |-> a, severity |-> sev ]

KeywordDiagnostic(q, a, dt, rs, score, vol, imp, clk, pur, fix) ==
    [ search_query      |-> q,
      asin              |-> a,
      diagnostic_type   |-> dt,
      rank_status       |-> rs,
      opportunity_score |-> score,
      search_volume     |-> vol,
      impressions_share |-> imp,
      clicks_share      |-> clk,
      purchases_share   |-> pur,
      recommended_fix   |-> fix ]

KeywordPlacement(q, a, pl, prio, vol, clk, why) ==
    [ search_query  |-> q,
      asin          |-> a,
      placement     |-> pl,
      priority      |-> prio,
      search_volume |-> vol,
      clicks_share  |-> clk,
      reasoning     |-> why ]

\* an exact fraction num / den, den > 0
Frac(n, d) == [num |-> n, den |-> d]

\* f >= t for a fraction f and an integer t
FracGE(f, t) == f.num >= t * f.den

\* no direct call has been made
NoCall ==
    [ fn |-> "none", record |-> SQPRecord("", "", 0, 0, 0, 0),
      has_price_flag |-> FALSE, volume_percentile |-> Frac(0, 1),
      result |-> "" ]

\* nothing has been summarized, run or written, and no report is waited for
NothingRun ==
    /\ diag_summary = <<>>
    /\ place_summary = <<>>
    /\ first_diagnostics = <<>>
    /\ first_placements = <<>>
    /\ diag_runs = 0
    /\ place_runs = 0
    /\ sheet_diagnostics = <<>>
    /\ sheet_placements = <<>>
    /\ wait_pc = "idle"
    /\ max_wait = 0
    /\ check_interval = 0
    /\ elapsed = 0
    /\ status = "None"
    /\ doc_id = "None"
    /\ wait_result = "none"
    /\ observed = {}

-----------------------------------------------------------------------------
(* DiagnosticAnalyzer: the methods on one record. *)

\* get_rank_status with every >= written as >
get_rank_status_strict(th, impressions_share) ==
    IF impressions_share > th.rank_top_3_threshold THEN "top_3"
    ELSE IF impressions_share > th.rank_page_1_high_threshold THEN "page_1_high"
    ELSE IF impressions_share > th.rank_page_1_low_threshold THEN "page_1_low"
    ELSE "invisible"

get_rank_status(th, impressions_share) ==
    IF impressions_share >= th.rank_top_3_threshold THEN "top_3"
    ELSE IF impressions_share >= th.rank_page_1_high_threshold THEN "page_1_high"
    ELSE IF impressions_share >= th.rank_page_1_low_threshold THEN "page_1_low"
    ELSE "invisible"

\* calculate_opportunity_score clamped at 0
calculate_opportunity_score_clamped(record) ==
    IF record.impressions_share > 100 THEN 0
    ELSE record.search_volume * (100 - record.impressions_share)

\* 100 * (search_volume * (1 - impressions_share / 100))
calculate_opportunity_score(record) ==
    record.search_volume * (100 - record.impressions_share)

\* diagnose with the WINDOW_SHOPPER rule tried before the GHOST rule
diagnose_window_shopper_first(th, record, has_price_flag) ==
    IF /\ record.impressions_share >= th.window_shopper_min_imp_share
       /\ record.clicks_share < th.window_shopper_max_click_share
    THEN "window_shopper"
    ELSE IF /\ record.search_volume >= th.ghost_min_volume
            /\ record.impressions_share < th.ghost_max_imp_share
    THEN "ghost"
    ELSE IF /\ has_price_flag
            /\ record.impressions_share >= th.price_problem_min_imp_share
    THEN "price_problem"
    ELSE "healthy"

\* diagnose whose PRICE_PROBLEM rule does not ask for the flag
diagnose_ignores_flag(th, record, has_price_flag) ==
    IF /\ record.search_volume >= th.ghost_min_volume
       /\ record.impressions_share < th.ghost_max_imp_share
    THEN "ghost"
    ELSE IF /\ record.impressions_share >= th.window_shopper_min_imp_share
            /\ record.clicks_share < th.window_shopper_max_click_share
    THEN "window_shopper"
    ELSE IF record.impressions_share >= th.price_problem_min_imp_share
    THEN "price_problem"
    ELSE "healthy"

diagnose(th, record, has_price_flag) ==
    IF /\ record.search_volume >= th.ghost_min_volume
       /\ record.impressions_share < th.ghost_max_imp_share
    THEN "ghost"
    ELSE IF /\ record.impressions_share >= th.window_shopper_min_imp_share
            /\ record.clicks_share < th.window_shopper_max_click_share
    THEN "window_shopper"
    ELSE IF /\ has_price_flag
            /\ record.impressions_share >= th.price_problem_min_imp_share
    THEN "price_problem"
    ELSE "healthy"

get_fix_recommendation(diagnostic) ==
    CASE diagnostic = "ghost" ->
           "Not ranking for this keyword. Add to listing (title/bullets/backend) or run PPC to build relevance."
      [] diagnostic = "window_shopper" ->
           "Customers see but don't click. Improve main image, title, or review count. Check competitor positioning."
      [] diagnostic = "price_problem" ->
           "Price is above market. Consider price adjustment, bundle offers, or highlight value proposition in listing."
      [] diagnostic = "healthy" ->
           "No issues detected. Maintain current strategy."
      [] OTHER -> ""

-----------------------------------------------------------------------------
(* PlacementRecommender: the methods on one record. *)

\* calculate_percentile with a strict comparison in the single-value case
calculate_percentile_single_strict(value, all_values) ==
    IF Len(all_values) = 0 THEN Frac(0, 1)
    ELSE IF Len(all_values) = 1
    THEN (IF value > all_values[1] THEN Frac(100, 1) ELSE Frac(0, 1))
    ELSE LET count_below ==
                 Cardinality({i \in 1..Len(all_values) : all_values[i] <= value})
         IN  Frac(count_below * 100, Len(all_values))

\* calculate_percentile counting the values strictly below
calculate_percentile_strict(value, all_values) ==
    IF Len(all_values) = 0 THEN Frac(0, 1)
    ELSE IF Len(all_values) = 1
    THEN (IF value >= all_values[1] THEN Frac(100, 1) ELSE Frac(0, 1))
    ELSE LET count_below ==
                 Cardinality({i \in 1..Len(all_values) : all_values[i] < value})
         IN  Frac(count_below * 100, Len(all_values))

\* calculate_percentile not counting the value itself
calculate_percentile_without_self(value, all_values) ==
    IF Len(all_values) = 0 THEN Frac(0, 1)
    ELSE IF Len(all_values) = 1
    THEN (IF value >= all_values[1] THEN Frac(100, 1) ELSE Frac(0, 1))
    ELSE LET count_below ==
                 Cardinality({i \in 1..Len(all_values) : all_values[i] <= value})
         IN  Frac((count_below - 1) * 100, Len(all_values))

calculate_percentile(value, all_values) ==
    IF Len(all_values) = 0 THEN Frac(0, 1)
    ELSE IF Len(all_values) = 1
    THEN (IF value >= all_values[1] THEN Frac(100, 1) ELSE Frac(0, 1))
    ELSE LET count_below ==
                 Cardinality({i \in 1..Len(all_values) : all_values[i] <= value})
         IN  Frac(count_below * 100, Len(all_values))

\* recommend_placement without the clicks_share test of the second rung
recommend_placement_no_click_test(th, record, volume_percentile) ==
    IF FracGE(volume_percentile, th.title_top_volume_percentile)
    THEN <<"title", "top volume - must be in title">>
    ELSE IF FracGE(volume_percentile, th.title_min_volume_percentile)
    THEN <<"title", "high volume with click share">>
    ELSE IF FracGE(volume_percentile, th.bullets_min_volume_percentile)
    THEN <<"bullets", "mid-high volume - include in bullet points">>
    ELSE IF FracGE(volume_percentile, th.backend_min_volume_percentile)
    THEN <<"backend", "moderate volume - add to backend keywords">>
    ELSE <<"description", "lower volume - consider for description or A+ content">>

\* recommend_placement asking for the click share on the top rung too
recommend_placement_top_needs_clicks(th, record, volume_percentile) ==
    IF /\ FracGE(volume_percentile, th.title_top_volume_percentile)
       /\ record.clicks_share >= th.title_min_click_share
    THEN <<"title", "top volume - must be in title">>
    ELSE IF /\ FracGE(volume_percentile, th.title_min_volume_percentile)
            /\ record.clicks_share >= th.title_min_click_share
    THEN <<"title", "high volume with click share">>
    ELSE IF FracGE(volume_percentile, th.bullets_min_volume_percentile)
    THEN <<"bullets", "mid-high volume - include in bullet points">>
    ELSE IF FracGE(volume_percentile, th.backend_min_volume_percentile)
    THEN <<"backend", "moderate volume - add to backend keywords">>
    ELSE <<"description", "lower volume - consider for description or A+ content">>

\* recommend_placement with the click share comparison of the second rung
\* turned around
recommend_placement_low_clicks_title(th, record, volume_percentile) ==
    IF FracGE(volume_percentile, th.title_top_volume_percentile)
    THEN <<"title", "top volume - must be in title">>
    ELSE IF /\ FracGE(volume_percentile, th.title_min_volume_percentile)
            /\ record.clicks_share < th.title_min_click_share
    THEN <<"title", "high volume with click share">>
    ELSE IF FracGE(volume_percentile, th.bullets_min_volume_percentile)
    THEN <<"bullets", "mid-high volume - include in bullet points">>
    ELSE IF FracGE(volume_percentile, th.backend_min_volume_percentile)
    THEN <<"backend", "moderate volume - add to backend keywords">>
    ELSE <<"description", "lower volume - consider for description or A+ content">>

\* The result is <<target, reasoning>>; the reasoning text is kept as the
\* name of the rung that produced it.
recommend_placement(th, record, volume_percentile) ==
    IF FracGE(volume_percentile, th.title_top_volume_percentile)
    THEN <<"title", "top volume - must be in title">>
    ELSE IF /\ FracGE(volume_percentile, th.title_min_volume_percentile)
            /\ record.clicks_share >= th.title_min_click_share
    THEN <<"title", "high volume with click share">>
    ELSE IF FracGE(volume_percentile, th.bullets_min_volume_percentile)
    THEN <<"bullets", "mid-high volume - include in bullet points">>
    ELSE IF FracGE(volume_percentile, th.backend_min_volume_percentile)
    THEN <<"backend", "moderate volume - add to backend keywords">>
    ELSE <<"description", "lower volume - consider for description or A+ content">>

-----------------------------------------------------------------------------
(* list.sort(key=..., reverse=...): a stable sort.  Elements whose keys     *)
(* compare equal keep their order, also under reverse=True.  Keys are       *)
(* tuples of integers, compared as Python compares tuples.                  *)

TupleLess(a, b) ==
    \E i \in 1..Len(a) :
        /\ a[i] < b[i]
        /\ \A j \in 1..(i - 1) : a[j] = b[j]

\* e put into the sorted list of <<key, item>> pairs `sorted`, behind every
\* pair that does not have to follow it
InsertStable(sorted, e, reverse) ==
    LET stays(y) == IF reverse THEN ~TupleLess(y[1], e[1])
                    ELSE ~TupleLess(e[1], y[1])
        k == Cardinality({i \in 1..Len(sorted) : stays(sorted[i])})
    IN  SubSeq(sorted, 1, k) \o <<e>> \o SubSeq(sorted, k + 1, Len(sorted))

RECURSIVE SortDecorated(_, _)
SortDecorated(pairs, reverse) ==
    IF pairs = <<>> THEN <<>>
    ELSE InsertStable(SortDecorated(SubSeq(pairs, 1, Len(pairs) - 1), reverse),
                      pairs[Len(pairs)], reverse)

\* keys[i] is the key the key function gives for items[i]
list_sort(items, keys, reverse) ==
    LET pairs  == [i \in 1..Len(items) |-> <<keys[i], items[i]>>]
        sorted == SortDecorated(pairs, reverse)
    IN  [i \in 1..Len(sorted) |-> sorted[i][2]]

\* the elements of a list in reverse order
Reversed(items) == [i \in 1..Len(items) |-> items[Len(items) + 1 - i]]

-----------------------------------------------------------------------------
(* DiagnosticAnalyzer.analyze. *)

\* price_flags is None (present = FALSE) or a list
NoPriceFlags == [present |-> FALSE, items |-> <<>>]

\* the set built from the flags' asin instead of their search_query
price_flagged_queries_by_asin(pf) ==
    IF pf.present /\ Len(pf.items) > 0
    THEN {pf.items[i].asin : i \in 1..Len(pf.items)}
    ELSE {}

\* the set built from the flags whose severity is not OK
price_flagged_queries_not_ok(pf) ==
    IF pf.present /\ Len(pf.items) > 0
    THEN {pf.items[i].search_query :
              i \in {j \in 1..Len(pf.items) : pf.items[j].severity # "ok"}}
    ELSE {}

\* lines 108-110: the set of flagged queries; `if price_flags` is false for
\* None and for the empty list
price_flagged_queries(pf) ==
    IF pf.present /\ Len(pf.items) > 0
    THEN {pf.items[i].search_query : i \in 1..Len(pf.items)}
    ELSE {}

\* one iteration of the loop with the rank status taken from clicks_share
diagnostic_of_rank_from_clicks(th, record, has_price_flag) ==
    LET diagnostic_type == diagnose(th, record, has_price_flag)
    IN  KeywordDiagnostic(record.search_query,
                          record.asin,
                          diagnostic_type,
                          get_rank_status(th, record.clicks_share),
                          calculate_opportunity_score(record),
                          record.search_volume,
                          record.impressions_share,
                          record.clicks_share,
                          record.purchases_share,
                          get_fix_recommendation(diagnostic_type))

\* lines 114-132: one iteration of the loop
diagnostic_of(th, record, has_price_flag) ==
    LET diagnostic_type == diagnose(th, record, has_price_flag)
    IN  KeywordDiagnostic(record.search_query,
                          record.asin,
                          diagnostic_type,
                          get_rank_status(th, record.impressions_share),
                          calculate_opportunity_score(record),
                          record.search_volume,
                          record.impressions_share,
                          record.clicks_share,
                          record.purchases_share,
                          get_fix_recommendation(diagnostic_type))

\* ascending sort, then reversed: descending, but ties come out reversed
sort_by_opportunity_score_reversed(ds) ==
    Reversed(list_sort(ds, [i \in 1..Len(ds) |-> <<ds[i].opportunity_score>>],
                       FALSE))

\* line 135: diagnostics.sort(key=lambda d: d.opportunity_score, reverse=True)
sort_by_opportunity_score(ds) ==
    list_sort(ds, [i \in 1..Len(ds) |-> <<ds[i].opportunity_score>>], TRUE)

\* has_price_flag defaulting to true when no flag list was passed
has_price_flag_of_default_true(recs, pf) ==
    [i \in 1..Len(recs) |->
        ~pf.present \/ recs[i].search_query \in price_flagged_queries(pf)]

\* line 114: the has_price_flag of each record, in snapshot order
has_price_flag_of(recs, pf) ==
    [i \in 1..Len(recs) |-> recs[i].search_query \in price_flagged_queries(pf)]

\* the loop keyed by search_query: one diagnostic per distinct query
DiagnosticAnalyzer_analyze_by_query(th, recs, pf) ==
    LET last(i) == \A j \in (i + 1)..Len(recs) :
                       recs[j].search_query # recs[i].search_query
        idx  == SelectSeq([i \in 1..Len(recs) |-> i], last)
        flag == has_price_flag_of(recs, pf)
    IN  sort_by_opportunity_score(
            [k \in 1..Len(idx) |-> diagnostic_of(th, recs[idx[k]], flag[idx[k]])])

\* the loop followed by a second loop over the flags, which emits a price
\* problem for every flag
DiagnosticAnalyzer_analyze_flags_too(th, recs, pf) ==
    LET flag == has_price_flag_of(recs, pf)
    IN  sort_by_opportunity_score(
            [i \in 1..Len(recs) |-> diagnostic_of(th, recs[i], flag[i])]
            \o [i \in 1..Len(pf.items) |->
                   KeywordDiagnostic(pf.items[i].search_query, pf.items[i].asin,
                                     "price_problem", "invisible", 0, 0, 0, 0, 0,
                                     get_fix_recommendation("price_problem"))])

DiagnosticAnalyzer_analyze(th, recs, pf) ==
    LET flag == has_price_flag_of(recs, pf)
    IN  sort_by_opportunity_score(
            [i \in 1..Len(recs) |-> diagnostic_of(th, recs[i], flag[i])])

\* the loop of summarize without the PRICE_PROBLEM branch
RECURSIVE diagnostic_counts_no_price_problem(_, _)
diagnostic_counts_no_price_problem(ds, n) ==
    IF n = 0
    THEN [total |-> Len(ds), ghost |-> 0, window_shopper |-> 0,
          price_problem |-> 0, healthy |-> 0]
    ELSE LET counts == diagnostic_counts_no_price_problem(ds, n - 1)
             d      == ds[n]
         IN  IF d.diagnostic_type = "ghost"
             THEN [counts EXCEPT !.ghost = @ + 1]
             ELSE IF d.diagnostic_type = "window_shopper"
             THEN [counts EXCEPT !.window_shopper = @ + 1]
             ELSE [counts EXCEPT !.healthy = @ + 1]

\* lines 140-155: counts after the first n diagnostics
RECURSIVE diagnostic_counts(_, _)
diagnostic_counts(ds, n) ==
    IF n = 0
    THEN [total |-> Len(ds), ghost |-> 0, window_shopper |-> 0,
          price_problem |-> 0, healthy |-> 0]
    ELSE LET counts == diagnostic_counts(ds, n - 1)
             d      == ds[n]
         IN  IF d.diagnostic_type = "ghost"
             THEN [counts EXCEPT !.ghost = @ + 1]
             ELSE IF d.diagnostic_type = "window_shopper"
             THEN [counts EXCEPT !.window_shopper = @ + 1]
             ELSE IF d.diagnostic_type = "price_problem"
             THEN [counts EXCEPT !.price_problem = @ + 1]
             ELSE [counts EXCEPT !.healthy = @ + 1]

DiagnosticAnalyzer_summarize(ds) == diagnostic_counts(ds, Len(ds))

-----------------------------------------------------------------------------
(* The diagnostic run: a snapshot and price flags arrive, then analyze.     *)

DiagQueries == {"q1", "q2"}

\* <<search_volume, impressions_share, clicks_share>>
DiagMetrics ==
    { <<500, 0, 0>>, <<100, 0, 0>>, <<100, 10, 0>>, <<100, 10, 5>>,
      <<500, 6, 5>>, <<100, 6, 0>> }

DiagRecords ==
    {SQPRecord(q, "A1", m[1], m[2], m[3], 2) : q \in DiagQueries, m \in DiagMetrics}

FlagChoices ==
    {PriceFlag("q1", "A1", "critical"), PriceFlag("q2", "A2", "ok")}

Init ==
    /\ thresholds = DefaultThresholds
    /\ records = <<>>
    /\ price_flags = NoPriceFlags
    /\ diagnostics = <<>>
    /\ has_price_flags = <<>>
    /\ placements = <<>>
    /\ percentiles = <<>>
    /\ pc = "import"
    /\ call = NoCall
    /\ NothingRun

\* the importer appends a record to snapshot.records
AddRecord ==
    /\ pc = "import"
    /\ Len(records) < MaxRecords
    /\ \E r \in DiagRecords : records' = Append(records, r)
    /\ UNCHANGED <<thresholds, price_flags, diagnostics, has_price_flags,
                   placements, percentiles, pc, call, summaries, run_vars,
                   wait_vars>>

\* the caller passes a list (so far empty) instead of None
PassFlagList ==
    /\ pc = "import"
    /\ ~price_flags.present
    /\ price_flags' = [present |-> TRUE, items |-> <<>>]
    /\ UNCHANGED <<thresholds, records, diagnostics, has_price_flags,
                   placements, percentiles, pc, call, summaries, run_vars,
                   wait_vars>>

\* the price benchmark emits a flag
AddPriceFlag ==
    /\ pc = "import"
    /\ price_flags.present
    /\ Len(price_flags.items) < MaxFlags
    /\ \E f \in FlagChoices :
         price_flags' = [price_flags EXCEPT !.items = Append(@, f)]
    /\ UNCHANGED <<thresholds, records, diagnostics, has_price_flags,
                   placements, percentiles, pc, call, summaries, run_vars,
                   wait_vars>>

DiagnosticAnalyze ==
    /\ pc = "import"
    /\ diagnostics' = DiagnosticAnalyzer_analyze(thresholds, records, price_flags)
    /\ has_price_flags' = has_price_flag_of(records, price_flags)
    /\ pc' = "diagnosed"
    /\ diag_summary' = DiagnosticAnalyzer_summarize(diagnostics')
    /\ UNCHANGED <<thresholds, records, price_flags, placements, percentiles,
                   call, place_summary, run_vars, wait_vars>>

Next ==
    \/ AddRecord
    \/ PassFlagList
    \/ AddPriceFlag
    \/ DiagnosticAnalyze

Spec == Init /\ [][Next]_vars

-----------------------------------------------------------------------------
(* PlacementRecommender.analyze. *)

\* line 97: volumes = [r.search_volume for r in snapshot.records]
volumes_of(recs) == [i \in 1..Len(recs) |-> recs[i].search_volume]

\* the volume_percentile of each record, in snapshot order (line 101)
percentiles_of(recs) ==
    [i \in 1..Len(recs) |->
        calculate_percentile(recs[i].search_volume, volumes_of(recs))]

\* lines 99-114: the placements of the first pass, all with priority 0
first_pass(th, recs) ==
    [i \in 1..Len(recs) |->
        LET rec == recommend_placement(th, recs[i], percentiles_of(recs)[i])
        IN  KeywordPlacement(recs[i].search_query, recs[i].asin, rec[1], 0,
                             recs[i].search_volume, recs[i].clicks_share,
                             rec[2])]

\* the positions of a target's members, sorted ascending and then reversed
category_order_reversed(ps, target) ==
    LET category == SelectSeq([i \in 1..Len(ps) |-> i],
                              LAMBDA i : ps[i].placement = target)
    IN  Reversed(list_sort(category,
                           [k \in 1..Len(category) |->
                               <<ps[category[k]].search_volume>>],
                           FALSE))

\* lines 118-119: the positions in `placements` of the members of a target,
\* sorted by search_volume descending (category_placements holds the same
\* objects as placements)
category_order(ps, target) ==
    LET category == SelectSeq([i \in 1..Len(ps) |-> i],
                              LAMBDA i : ps[i].placement = target)
    IN  list_sort(category,
                  [k \in 1..Len(category) |-> <<ps[category[k]].search_volume>>],
                  TRUE)

\* lines 120-121: p.priority = i for the members of one target
assign_category(ps, target) ==
    LET order == category_order(ps, target)
    IN  [i \in 1..Len(ps) |->
            IF \E k \in 1..Len(order) : order[k] = i
            THEN [ps[i] EXCEPT
                    !.priority = CHOOSE k \in 1..Len(order) : order[k] = i]
            ELSE ps[i]]

\* lines 117-121: for target in PlacementTarget, the first t targets done
RECURSIVE assign_priorities(_, _)
assign_priorities(ps, t) ==
    IF t = 0 THEN ps
    ELSE assign_category(assign_priorities(ps, t - 1), PlacementTarget[t])

\* lines 124-129
placement_order(target) ==
    CASE target = "title" -> 0
      [] target = "bullets" -> 1
      [] target = "backend" -> 2
      [] target = "description" -> 3

\* the final sort with the key placement_order[p.placement] alone
sort_placements_by_target_only(ps) ==
    list_sort(ps, [i \in 1..Len(ps) |-> <<placement_order(ps[i].placement)>>],
              FALSE)

\* line 130: placements.sort(key=lambda p: (placement_order[p.placement],
\* p.priority))
sort_placements(ps) ==
    list_sort(ps,
              [i \in 1..Len(ps) |->
                  <<placement_order(ps[i].placement), ps[i].priority>>],
              FALSE)

PlacementRecommender_analyze(th, recs) ==
    IF Len(recs) = 0 THEN <<>>
    ELSE sort_placements(
             assign_priorities(first_pass(th, recs), Len(PlacementTarget)))

\* the loop of summarize with the BACKEND test comparing against BULLETS
RECURSIVE placement_counts_backend_as_bullets(_, _)
placement_counts_backend_as_bullets(ps, n) ==
    IF n = 0
    THEN [total |-> Len(ps), title |-> 0, bullets |-> 0, backend |-> 0,
          description |-> 0]
    ELSE LET counts == placement_counts_backend_as_bullets(ps, n - 1)
             p      == ps[n]
         IN  IF p.placement = "title"
             THEN [counts EXCEPT !.title = @ + 1]
             ELSE IF p.placement = "bullets"
             THEN [counts EXCEPT !.bullets = @ + 1]
             ELSE IF p.placement = "bullets"
             THEN [counts EXCEPT !.backend = @ + 1]
             ELSE [counts EXCEPT !.description = @ + 1]

\* lines 136-151: counts after the first n placements
RECURSIVE placement_counts(_, _)
placement_counts(ps, n) ==
    IF n = 0
    THEN [total |-> Len(ps), title |-> 0, bullets |-> 0, backend |-> 0,
          description |-> 0]
    ELSE LET counts == placement_counts(ps, n - 1)
             p      == ps[n]
         IN  IF p.placement = "title"
             THEN [counts EXCEPT !.title = @ + 1]
             ELSE IF p.placement = "bullets"
             THEN [counts EXCEPT !.bullets = @ + 1]
             ELSE IF p.placement = "backend"
             THEN [counts EXCEPT !.backend = @ + 1]
             ELSE [counts EXCEPT !.description = @ + 1]

PlacementRecommender_summarize(ps) == placement_counts(ps, Len(ps))

-----------------------------------------------------------------------------
(* The placement run: a snapshot arrives, then analyze. *)

PlaceVolumes == {100, 200, 300}

PlaceClicks == {0, 5}

PlaceRecords ==
    {SQPRecord(IF c = 0 THEN "q1" ELSE "q2", "A1", v, 0, c, 2) :
        v \in PlaceVolumes, c \in PlaceClicks}

InitPlace ==
    /\ thresholds = DefaultThresholds
    /\ records = <<>>
    /\ price_flags = NoPriceFlags
    /\ diagnostics = <<>>
    /\ has_price_flags = <<>>
    /\ placements = <<>>
    /\ percentiles = <<>>
    /\ pc = "import"
    /\ call = NoCall
    /\ NothingRun

\* the importer appends a record to snapshot.records
AddPlaceRecord ==
    /\ pc = "import"
    /\ Len(records) < MaxPlaceRecords
    /\ \E r \in PlaceRecords : records' = Append(records, r)
    /\ UNCHANGED <<thresholds, price_flags, diagnostics, has_price_flags,
                   placements, percentiles, pc, call, summaries, run_vars,
                   wait_vars>>

PlacementAnalyze ==
    /\ pc = "import"
    /\ placements' = PlacementRecommender_analyze(thresholds, records)
    /\ percentiles' = percentiles_of(records)
    /\ pc' = "placed"
    /\ place_summary' = PlacementRecommender_summarize(placements')
    /\ UNCHANGED <<thresholds, records, price_flags, diagnostics,
                   has_price_flags, call, diag_summary, run_vars, wait_vars>>

NextPlace ==
    \/ AddPlaceRecord
    \/ PlacementAnalyze

SpecPlace == InitPlace /\ [][NextPlace]_vars

-----------------------------------------------------------------------------
(* The placement run on longer snapshots.  The target of a record depends   *)
(* on the volumes of the snapshot and on its own clicks_share, not on the   *)
(* order of the records, so these snapshots list their records by           *)
(* search_volume and clicks_share ascending, as an export sorted by volume  *)
(* does.                                                                    *)

\* the importer appends a record that is not smaller than the last one
AddAscendingRecord ==
    /\ pc = "import"
    /\ Len(records) < MaxAscendingRecords
    /\ \E r \in PlaceRecords :
         /\ Len(records) > 0 =>
                LET last == records[Len(records)]
                IN  TupleLess(<<last.search_volume, last.clicks_share>>,
                              <<r.search_volume, r.clicks_share>>)
                    \/ <<last.search_volume, last.clicks_share>>
                           = <<r.search_volume, r.clicks_share>>
         /\ records' = Append(records, r)
    /\ UNCHANGED <<thresholds, price_flags, diagnostics, has_price_flags,
                   placements, percentiles, pc, call, summaries, run_vars,
                   wait_vars>>

NextPlaceAscending ==
    \/ AddAscendingRecord
    \/ PlacementAnalyze

SpecPlaceAscending == InitPlace /\ [][NextPlaceAscending]_vars

-----------------------------------------------------------------------------
(* Direct calls of the pure methods, on inputs from bounded sets. *)

FnVolumes == {0, 1, 99, 100, 499, 500, 1000}

FnShares == -1..MaxShare

FnClicks == 0..MaxClicks

FnPercentiles ==
    {Frac(k, 1) : k \in -1..MaxShare}
      \cup {Frac(100 * c, n) : c \in 0..MaxDen, n \in 1..MaxDen}

InitFn ==
    /\ thresholds \in ThresholdConfigs
    /\ records = <<>>
    /\ price_flags = NoPriceFlags
    /\ diagnostics = <<>>
    /\ has_price_flags = <<>>
    /\ placements = <<>>
    /\ percentiles = <<>>
    /\ pc = "calls"
    /\ call = NoCall
    /\ NothingRun

CallGetRankStatus ==
    /\ pc = "calls"
    /\ call.fn = "none"
    /\ \E imp \in FnShares :
         call' = [NoCall EXCEPT !.fn = "get_rank_status",
                                !.record = SQPRecord("q1", "A1", 0, imp, 0, 0),
                                !.result = get_rank_status(thresholds, imp)]
    /\ UNCHANGED <<thresholds, records, price_flags, diagnostics,
                   has_price_flags, placements, percentiles, pc, summaries,
                   run_vars, wait_vars>>

CallOpportunityScore ==
    /\ pc = "calls"
    /\ call.fn = "none"
    /\ \E vol \in FnVolumes, imp \in FnShares :
         LET r == SQPRecord("q1", "A1", vol, imp, 0, 0)
         IN  call' = [NoCall EXCEPT !.fn = "calculate_opportunity_score",
                                    !.record = r,
                                    !.result = calculate_opportunity_score(r)]
    /\ UNCHANGED <<thresholds, records, price_flags, diagnostics,
                   has_price_flags, placements, percentiles, pc, summaries,
                   run_vars, wait_vars>>

CallDiagnose ==
    /\ pc = "calls"
    /\ call.fn = "none"
    /\ \E vol \in FnVolumes, imp \in FnShares, clk \in FnClicks, f \in BOOLEAN :
         LET r == SQPRecord("q1", "A1", vol, imp, clk, 0)
         IN  call' = [NoCall EXCEPT !.fn = "diagnose",
                                    !.record = r,
                                    !.has_price_flag = f,
                                    !.result = diagnose(thresholds, r, f)]
    /\ UNCHANGED <<thresholds, records, price_flags, diagnostics,
                   has_price_flags, placements, percentiles, pc, summaries,
                   run_vars, wait_vars>>

CallRecommendPlacement ==
    /\ pc = "calls"
    /\ call.fn = "none"
    /\ \E clk \in FnClicks, p \in FnPercentiles :
         LET r == SQPRecord("q1", "A1", 100, 0, clk, 0)
         IN  call' = [NoCall EXCEPT !.fn = "recommend_placement",
                                    !.record = r,
                                    !.volume_percentile = p,
                                    !.result = recommend_placement(thresholds, r, p)]
    /\ UNCHANGED <<thresholds, records, price_flags, diagnostics,
                   has_price_flags, placements, percentiles, pc, summaries,
                   run_vars, wait_vars>>

NextFn ==
    \/ CallGetRankStatus
    \/ CallOpportunityScore
    \/ CallDiagnose
    \/ CallRecommendPlacement

SpecFn == InitFn /\ [][NextFn]_vars

-----------------------------------------------------------------------------
(* The diagnostic run on a snapshot of one record, whose metrics range over *)
(* every share and click share of the direct calls.                         *)

\* the importer delivers a snapshot of one record
ImportOneRecord ==
    /\ pc = "import"
    /\ records = <<>>
    /\ \E q \in DiagQueries, vol \in FnVolumes, imp \in FnShares,
          clk \in FnClicks :
         records' = <<SQPRecord(q, "A1", vol, imp, clk, 0)>>
    /\ UNCHANGED <<thresholds, price_flags, diagnostics, has_price_flags,
                   placements, percentiles, pc, call, summaries, run_vars,
                   wait_vars>>

NextOneRecord ==
    \/ ImportOneRecord
    \/ PassFlagList
    \/ AddPriceFlag
    \/ DiagnosticAnalyze

SpecOneRecord == Init /\ [][NextOneRecord]_vars

-----------------------------------------------------------------------------
(* The whole analysis: a snapshot and price flags arrive, the two analyzers *)
(* run on them (each possibly more than once), and the results are written  *)
(* to the sheet tabs.                                                       *)

\* analyze sorting snapshot.records itself, by opportunity score
DiagnosticAnalyzer_analyze_records_sorted(recs) ==
    list_sort(recs,
              [i \in 1..Len(recs) |-> <<calculate_opportunity_score(recs[i])>>],
              TRUE)

\* snapshot.records after DiagnosticAnalyzer.analyze: line 113 iterates over
\* it, the sort of line 135 is on the new list
DiagnosticAnalyzer_analyze_records(recs) == recs

\* analyze sorting snapshot.records itself, by search volume
PlacementRecommender_analyze_records_sorted(recs) ==
    list_sort(recs, [i \in 1..Len(recs) |-> <<recs[i].search_volume>>], TRUE)

\* snapshot.records after PlacementRecommender.analyze: lines 97 and 99 read
\* it, the sorts of lines 119 and 130 are on new lists
PlacementRecommender_analyze_records(recs) == recs

\* to_dict with the long name of one column
KeywordDiagnostic_to_dict_long_key(d) ==
    ("Search Query" :> d.search_query) @@ ("ASIN" :> d.asin)
        @@ ("Diagnostic" :> d.diagnostic_type)
        @@ ("Rank Status" :> d.rank_status)
        @@ ("Opportunity Score" :> d.opportunity_score)
        @@ ("Volume" :> d.search_volume)
        @@ ("Impression Share" :> d.impressions_share)
        @@ ("Click Share" :> d.clicks_share)
        @@ ("Purchase Share" :> d.purchases_share)
        @@ ("Recommended Fix" :> d.recommended_fix)

\* the dict of a diagnostic, a function from its keys
KeywordDiagnostic_to_dict(d) ==
    ("Search Query" :> d.search_query) @@ ("ASIN" :> d.asin)
        @@ ("Diagnostic" :> d.diagnostic_type)
        @@ ("Rank Status" :> d.rank_status)
        @@ ("Opportunity Score" :> d.opportunity_score)
        @@ ("Volume" :> d.search_volume)
        @@ ("Imp Share" :> d.impressions_share)
        @@ ("Click Share" :> d.clicks_share)
        @@ ("Purchase Share" :> d.purchases_share)
        @@ ("Recommended Fix" :> d.recommended_fix)

\* the dict of a placement, a function from its keys
KeywordPlacement_to_dict(p) ==
    ("Search Query" :> p.search_query) @@ ("ASIN" :> p.asin)
        @@ ("Placement" :> p.placement)
        @@ ("Priority" :> p.priority)
        @@ ("Volume" :> p.search_volume)
        @@ ("Click Share" :> p.clicks_share)
        @@ ("Reasoning" :> p.reasoning)

diagnostics_headers ==
    << "Search Query", "ASIN", "Diagnostic", "Rank Status", "Opportunity Score",
       "Volume", "Imp Share", "Click Share", "Purchase Share",
       "Recommended Fix" >>

placements_headers ==
    << "Search Query", "ASIN", "Placement", "Priority", "Volume", "Click Share",
       "Reasoning" >>

\* record.get(h, default)
dict_get(record, h, default) ==
    IF h \in DOMAIN record THEN record[h] ELSE default

\* rows = [headers], then one row per record
sheet_rows(headers, dicts) ==
    <<headers>> \o
        [i \in 1..Len(dicts) |->
            [j \in 1..Len(headers) |-> dict_get(dicts[i], headers[j], "")]]

write_diagnostics(dicts) == sheet_rows(diagnostics_headers, dicts)

write_placements(dicts) == sheet_rows(placements_headers, dicts)

\* <<search_volume, impressions_share, clicks_share>>: two records of equal
\* score, two of equal volume, a record of volume 0, a ghost
RunMetrics ==
    { <<100, 0, 0>>, <<500, 80, 5>>, <<0, 0, 0>>, <<100, 10, 0>>, <<500, 0, 0>> }

RunRecords ==
    {SQPRecord(IF m[2] = 0 THEN "q1" ELSE "q2", "A1", m[1], m[2], m[3], 2) :
        m \in RunMetrics}

InitRuns ==
    /\ thresholds = DefaultThresholds
    /\ records = <<>>
    /\ price_flags = NoPriceFlags
    /\ diagnostics = <<>>
    /\ has_price_flags = <<>>
    /\ placements = <<>>
    /\ percentiles = <<>>
    /\ pc = "import"
    /\ call = NoCall
    /\ NothingRun

\* the importer appends a record to snapshot.records
AddRunRecord ==
    /\ pc = "import"
    /\ Len(records) < MaxRecords
    /\ \E r \in RunRecords : records' = Append(records, r)
    /\ UNCHANGED <<thresholds, price_flags, diagnostics, has_price_flags,
                   placements, percentiles, pc, call, summaries, run_vars,
                   wait_vars>>

\* diagnostic_analyzer.analyze(latest, price_flags) and the summary of its
\* result
RunDiagnostic ==
    /\ pc \in {"import", "analysis"}
    /\ diag_runs < MaxRuns
    /\ diagnostics' = DiagnosticAnalyzer_analyze(thresholds, records, price_flags)
    /\ has_price_flags' = has_price_flag_of(records, price_flags)
    /\ records' = DiagnosticAnalyzer_analyze_records(records)
    /\ diag_summary' = DiagnosticAnalyzer_summarize(diagnostics')
    /\ first_diagnostics' =
           IF diag_runs = 0 THEN diagnostics' ELSE first_diagnostics
    /\ diag_runs' = diag_runs + 1
    /\ pc' = "analysis"
    /\ UNCHANGED <<thresholds, price_flags, placements, percentiles, call,
                   place_summary, first_placements, place_runs,
                   sheet_diagnostics, sheet_placements, wait_vars>>

\* placement_recommender.analyze(latest) and the summary of its result
RunPlacement ==
    /\ pc \in {"import", "analysis"}
    /\ place_runs < MaxRuns
    /\ placements' = PlacementRecommender_analyze(thresholds, records)
    /\ percentiles' = percentiles_of(records)
    /\ records' = PlacementRecommender_analyze_records(records)
    /\ place_summary' = PlacementRecommender_summarize(placements')
    /\ first_placements' =
           IF place_runs = 0 THEN placements' ELSE first_placements
    /\ place_runs' = place_runs + 1
    /\ pc' = "analysis"
    /\ UNCHANGED <<thresholds, price_flags, diagnostics, has_price_flags, call,
                   diag_summary, first_diagnostics, diag_runs,
                   sheet_diagnostics, sheet_placements, wait_vars>>

\* write_results_to_sheets: a tab is written when its result list is not
\* empty
WriteResults ==
    /\ pc = "analysis"
    /\ diag_runs > 0
    /\ place_runs > 0
    /\ sheet_diagnostics' =
           IF diagnostics # <<>>
           THEN write_diagnostics(
                    [i \in 1..Len(diagnostics) |->
                        KeywordDiagnostic_to_dict(diagnostics[i])])
           ELSE sheet_diagnostics
    /\ sheet_placements' =
           IF placements # <<>>
           THEN write_placements(
                    [i \in 1..Len(placements) |->
                        KeywordPlacement_to_dict(placements[i])])
           ELSE sheet_placements
    /\ pc' = "written"
    /\ UNCHANGED <<thresholds, records, price_flags, diagnostics,
                   has_price_flags, placements, percentiles, call, summaries,
                   first_diagnostics, first_placements, diag_runs, place_runs,
                   wait_vars>>

NextRuns ==
    \/ AddRunRecord
    \/ PassFlagList
    \/ AddPriceFlag
    \/ RunDiagnostic
    \/ RunPlacement
    \/ WriteResults

SpecRuns == InitRuns /\ [][NextRuns]_vars

-----------------------------------------------------------------------------
(* calculate_health_score, on summaries from bounded sets.  The floats are  *)
(* exact fractions; a dict is a function from the keys it holds.            *)

\* a - b
FracSub(a, b) == Frac(a.num * b.den - b.num * a.den, a.den * b.den)

\* min(a, b) and max(a, b) as Python evaluate them: the first argument
\* unless the second is smaller (larger)
FracMin(a, b) == IF b.num * a.den < a.num * b.den THEN b ELSE a

FracMax(a, b) == IF b.num * a.den > a.num * b.den THEN b ELSE a

\* the price penalty without its cap
health_price_penalty_uncapped(price_flagged, total) ==
    Frac(price_flagged * 20, total)

\* line 286: min((price_flagged / total) * 20, 20)
health_price_penalty(price_flagged, total) ==
    FracMin(Frac(price_flagged * 20, total), Frac(20, 1))

\* lines 271-288
calculate_health_score(categories, prices) ==
    LET total == dict_get(categories, "total", 0)
    IN  IF total = 0 THEN Frac(0, 1)
        ELSE LET bread_butter  == dict_get(categories, "bread_butter", 0)
                 leaks         == dict_get(categories, "leaks", 0)
                 price_flagged == dict_get(prices, "total_flagged", 0)
                 base_score    == Frac(bread_butter * 100, total)
                 leak_penalty  == Frac(leaks * 30, total)
                 price_penalty == health_price_penalty(price_flagged, total)
             IN  FracMax(Frac(0, 1),
                         FracMin(Frac(100, 1),
                                 FracSub(FracSub(base_score, leak_penalty),
                                         price_penalty)))

\* the dicts with some of the given keys and counts up to MaxCount
CountDicts(keys) == UNION {[S -> 0..MaxCount] : S \in SUBSET keys}

InitHealth ==
    /\ thresholds = DefaultThresholds
    /\ records = <<>>
    /\ price_flags = NoPriceFlags
    /\ diagnostics = <<>>
    /\ has_price_flags = <<>>
    /\ placements = <<>>
    /\ percentiles = <<>>
    /\ pc = "calls"
    /\ call = NoCall
    /\ NothingRun

\* main.py line 252: calculate_health_score(categories, prices)
CallHealthScore ==
    /\ pc = "calls"
    /\ call.fn = "none"
    /\ \E categories \in CountDicts({"total", "bread_butter", "leaks"}),
          prices \in CountDicts({"total_flagged"}) :
         call' = [ fn         |-> "calculate_health_score",
                   categories |-> categories,
                   prices     |-> prices,
                   result     |-> calculate_health_score(categories, prices) ]
    /\ UNCHANGED <<thresholds, records, price_flags, diagnostics,
                   has_price_flags, placements, percentiles, pc, summaries,
                   run_vars, wait_vars>>

NextHealth == CallHealthScore

SpecHealth == InitHealth /\ [][NextHealth]_vars

-----------------------------------------------------------------------------
(* wait_for_report of fetch_sqp_data.py and of fetch_traffic_sales.py: the  *)
(* same loop with check_interval 30 and 15.  One step is one turn of the    *)
(* loop: the while test, get_report, the branches, and the sleep.  The      *)
(* calls to the reports API return; what they return is the environment's   *)
(* choice.                                                                  *)

\* Python's None, as a payload value
PyNone == "None"

\* check_interval of the two commands
CheckIntervals == {30, 15}

\* the max_wait arguments tried are multiples of this many seconds
WaitStep == 15

\* seconds a get_report call can take
PollDelays == {0, 5}

\* <<processingStatus, reportDocumentId>> of a get_report payload
ReportPayloads ==
    { <<"IN_QUEUE", PyNone>>, <<"IN_PROGRESS", PyNone>>, <<"DONE", PyNone>>,
      <<"DONE", "">>, <<"DONE", "doc1">>, <<"FATAL", PyNone>>,
      <<"FATAL", "doc1">>, <<"CANCELLED", PyNone>>, <<"UNKNOWN", PyNone>>,
      <<PyNone, PyNone>> }

\* the truth value of a payload value in `if doc_id` / `and doc_id`
truthy(v) == v # PyNone /\ v # ""

\* the branches with DONE returning True whatever the document id
poll_outcome_done_any(st, doc) ==
    IF st = "DONE" THEN "True"
    ELSE IF st = "FATAL" THEN "False"
    ELSE IF st = "CANCELLED" THEN "False"
    ELSE "continue"

\* lines 306-322: what the branches after a poll do: return True, return
\* False, or fall through to the sleep
poll_outcome(st, doc) ==
    IF st = "DONE" /\ truthy(doc) THEN "True"
    ELSE IF st = "FATAL" THEN "False"
    ELSE IF st = "CANCELLED" THEN "False"
    ELSE "continue"

InitWait ==
    /\ thresholds = DefaultThresholds
    /\ records = <<>>
    /\ price_flags = NoPriceFlags
    /\ diagnostics = <<>>
    /\ has_price_flags = <<>>
    /\ placements = <<>>
    /\ percentiles = <<>>
    /\ pc = "fetch"
    /\ call = NoCall
    /\ NothingRun

\* wait_for_report is called: lines 290-296
CallWaitForReport ==
    /\ wait_pc = "idle"
    /\ \E steps \in 0..MaxWaitSteps : max_wait' = steps * WaitStep
    /\ \E interval \in CheckIntervals : check_interval' = interval
    /\ elapsed' = 0
    /\ wait_pc' = "loop"
    /\ UNCHANGED <<thresholds, records, price_flags, diagnostics,
                   has_price_flags, placements, percentiles, pc, call,
                   summaries, run_vars, status, doc_id, wait_result, observed>>

\* one turn of the loop: lines 298-324
PollReport ==
    /\ wait_pc = "loop"
    /\ elapsed < max_wait
    /\ \E payload \in ReportPayloads, delay \in PollDelays :
         /\ status' = payload[1]
         /\ doc_id' = payload[2]
         /\ observed' = observed \cup {payload}
         /\ IF poll_outcome(payload[1], payload[2]) = "continue"
            THEN /\ elapsed' = elapsed + delay + check_interval
                 /\ UNCHANGED <<wait_pc, wait_result>>
            ELSE /\ elapsed' = elapsed + delay
                 /\ wait_result' = poll_outcome(payload[1], payload[2])
                 /\ wait_pc' = "returned"
    /\ UNCHANGED <<thresholds, records, price_flags, diagnostics,
                   has_price_flags, placements, percentiles, pc, call,
                   summaries, run_vars, max_wait, check_interval>>

\* the while test fails: lines 298, 326-327
WaitTimeout ==
    /\ wait_pc = "loop"
    /\ ~(elapsed < max_wait)
    /\ wait_result' = "False"
    /\ wait_pc' = "returned"
    /\ UNCHANGED <<thresholds, records, price_flags, diagnostics,
                   has_price_flags, placements, percentiles, pc, call,
                   summaries, run_vars, max_wait, check_interval, elapsed,
                   status, doc_id, observed>>

NextWait ==
    \/ CallWaitForReport
    \/ PollReport
    \/ WaitTimeout

\* the calls return and the process keeps running: a step that can be taken
\* is taken
SpecWait == InitWait /\ [][NextWait]_vars /\ WF_vars(NextWait)

-----------------------------------------------------------------------------
(* The rule conditions of the diagnostic decision list, as the documentation *)
(* states them.                                                              *)

GhostCond(th, r) ==
    r.search_volume >= th.ghost_min_volume
      /\ r.impressions_share < th.ghost_max_imp_share

WindowShopperCond(th, r) ==
    r.impressions_share >= th.window_shopper_min_imp_share
      /\ r.clicks_share < th.window_shopper_max_click_share

PriceProblemCond(th, r, flagged) ==
    flagged /\ r.impressions_share >= th.price_problem_min_imp_share

\* the type the ordered list assigns, given which conditions hold
FirstMatch(g, w, p) ==
    IF g THEN "ghost"
    ELSE IF w THEN "window_shopper"
    ELSE IF p THEN "price_problem"
    ELSE "healthy"

-----------------------------------------------------------------------------
(* Properties of the pure methods (SpecFn). *)

\* C1: diagnose returns the first matching rule of GHOST, WINDOW_SHOPPER,
\* PRICE_PROBLEM, HEALTHY: each type is returned exactly when its condition
\* holds and no earlier rule's condition does, for every record, flag and
\* threshold configuration; GHOST wins over WINDOW_SHOPPER, and
\* WINDOW_SHOPPER over PRICE_PROBLEM.
C1_DiagnoseFirstMatch ==
    call.fn = "diagnose" =>
        LET g == GhostCond(thresholds, call.record)
            w == WindowShopperCond(thresholds, call.record)
            p == PriceProblemCond(thresholds, call.record, call.has_price_flag)
        IN  /\ call.result \in DiagnosticType
            /\ (call.result = "ghost") <=> g
            /\ (call.result = "window_shopper") <=> (~g /\ w)
            /\ (call.result = "price_problem") <=> (~g /\ ~w /\ p)
            /\ (call.result = "healthy") <=> (~g /\ ~w /\ ~p)
            /\ (g /\ w) => call.result = "ghost"
            /\ (~g /\ w /\ p) => call.result = "window_shopper"

\* a record that satisfies all three rule conditions at once was diagnosed
C1_Witness ==
    /\ call.fn = "diagnose"
    /\ GhostCond(thresholds, call.record)
    /\ WindowShopperCond(thresholds, call.record)
    /\ PriceProblemCond(thresholds, call.record, call.has_price_flag)
    /\ call.result = "ghost"

C9_OpportunityScore ==
    call.fn = "calculate_opportunity_score" =>
        LET v == call.record.search_volume
            x == call.record.impressions_share
            s == call.result
        IN  /\ s = v * 100 - v * x
            /\ (v >= 0 /\ 0 <= x /\ x <= 100) => (0 <= s /\ s <= 100 * v)
            /\ (x = 100 \/ v = 0) => s = 0
            /\ (x > 100 /\ v > 0) => s < 0

\* a positive volume with a share above 100 was scored
C9_Witness ==
    /\ call.fn = "calculate_opportunity_score"
    /\ call.record.search_volume > 0
    /\ call.record.impressions_share > 100
    /\ call.result < 0

-----------------------------------------------------------------------------
(* Properties of DiagnosticAnalyzer.analyze (Spec). *)

\* the input fields a result record carries
Copied(x) ==
    <<x.search_query, x.asin, x.search_volume, x.clicks_share>>

\* the query of d is the search_query of at least one supplied flag
QueryFlagged(q) ==
    \E j \in 1..Len(price_flags.items) : price_flags.items[j].search_query = q

\* C2: in analyze a record is diagnosed with has_price_flag = true exactly
\* when its search_query is the search_query of at least one supplied
\* PriceFlag; so a record matching neither GHOST nor WINDOW_SHOPPER with
\* impressions_share >= price_problem_min_imp_share is PRICE_PROBLEM when its
\* query is flagged and HEALTHY when it is not.
C2_PriceFlagMembership ==
    pc = "diagnosed" =>
        /\ Len(has_price_flags) = Len(records)
        /\ \A i \in 1..Len(records) :
               has_price_flags[i] <=> QueryFlagged(records[i].search_query)
        /\ \A k \in 1..Len(diagnostics) :
               LET d == diagnostics[k]
               IN  ( /\ ~GhostCond(thresholds, d)
                     /\ ~WindowShopperCond(thresholds, d)
                     /\ d.impressions_share >= thresholds.price_problem_min_imp_share )
                   => d.diagnostic_type =
                        (IF QueryFlagged(d.search_query) THEN "price_problem"
                         ELSE "healthy")

\* one run reported a flagged query as PRICE_PROBLEM and an unflagged query
\* with the same metrics as HEALTHY
C2_Witness ==
    /\ pc = "diagnosed"
    /\ \E k, l \in 1..Len(diagnostics) :
         /\ diagnostics[k].diagnostic_type = "price_problem"
         /\ diagnostics[l].diagnostic_type = "healthy"
         /\ diagnostics[k].search_query # diagnostics[l].search_query
         /\ diagnostics[k].impressions_share = diagnostics[l].impressions_share
         /\ diagnostics[k].clicks_share = diagnostics[l].clicks_share
         /\ diagnostics[k].search_volume = diagnostics[l].search_volume

\* C3: the output of analyze is ordered by opportunity_score non-increasing,
\* and diagnostics of equal score appear in the order of their records in
\* snapshot.records: for each score, the outputs with that score are the
\* records with that score, in snapshot order.
C3_SortedByScoreStable ==
    pc = "diagnosed" =>
        /\ \A k \in 1..(Len(diagnostics) - 1) :
               diagnostics[k].opportunity_score
                   >= diagnostics[k + 1].opportunity_score
        /\ \A v \in {diagnostics[k].opportunity_score : k \in 1..Len(diagnostics)}
                  \cup {records[i].search_volume * (100 - records[i].impressions_share) :
                            i \in 1..Len(records)} :
               LET outs == SelectSeq(diagnostics,
                                     LAMBDA d : d.opportunity_score = v)
                   ins  == SelectSeq(records,
                                     LAMBDA r : r.search_volume
                                                  * (100 - r.impressions_share) = v)
               IN  /\ Len(outs) = Len(ins)
                   /\ \A k \in 1..Len(outs) :
                          /\ Copied(outs[k]) = Copied(ins[k])
                          /\ outs[k].impressions_share = ins[k].impressions_share

\* a later record outscored an earlier one, and two different records tied
C3_Witness ==
    /\ pc = "diagnosed"
    /\ Len(records) = 3
    /\ records[1].search_volume * (100 - records[1].impressions_share)
         < records[3].search_volume * (100 - records[3].impressions_share)
    /\ diagnostics[2].opportunity_score = diagnostics[3].opportunity_score
    /\ Copied(diagnostics[2]) # Copied(diagnostics[3])

\* d is the diagnostic of record r
DiagnosticCarries(d, r) ==
    /\ d.search_query = r.search_query
    /\ d.asin = r.asin
    /\ d.search_volume = r.search_volume
    /\ d.impressions_share = r.impressions_share
    /\ d.clicks_share = r.clicks_share
    /\ d.purchases_share = r.purchases_share
    /\ d.diagnostic_type =
         FirstMatch(GhostCond(thresholds, r), WindowShopperCond(thresholds, r),
                    PriceProblemCond(thresholds, r, QueryFlagged(r.search_query)))
    /\ d.rank_status = get_rank_status(thresholds, r.impressions_share)
    /\ d.opportunity_score = r.search_volume * (100 - r.impressions_share)

\* the one-to-one maps of 1..n onto itself
Bijections(n) ==
    {f \in [1..n -> 1..n] : \A i, j \in 1..n : f[i] = f[j] => i = j}

\* C10: analyze emits exactly one KeywordDiagnostic per record (the output
\* is a permutation of the per-record results, also when search_query values
\* repeat), each carrying its record's search_query, asin, search_volume and
\* shares with the type, rank status and score computed from that record.
C10_OneDiagnosticPerRecord ==
    pc = "diagnosed" =>
        /\ Len(diagnostics) = Len(records)
        /\ \E f \in Bijections(Len(records)) :
               \A k \in 1..Len(records) :
                   DiagnosticCarries(diagnostics[k], records[f[k]])

\* a snapshot in which a search_query repeats with different metrics
C10_Witness ==
    /\ pc = "diagnosed"
    /\ Len(diagnostics) = 3
    /\ \E i, j \in 1..Len(records) :
         /\ i # j
         /\ records[i].search_query = records[j].search_query
         /\ records[i] # records[j]

-----------------------------------------------------------------------------
(* Properties of PlacementRecommender.analyze (SpecPlace). *)

\* C5: the volume_percentile of each record is 100 * (number of records of
\* the whole snapshot with search_volume <= its own, itself included) /
\* (number of records), for every non-empty snapshot, with duplicate volumes
\* and for size one; it lies in (0, 100].
C5_PercentileInclusive ==
    (pc = "placed" /\ Len(records) > 0) =>
        /\ Len(percentiles) = Len(records)
        /\ \A i \in 1..Len(records) :
               LET n     == Len(records)
                   count == Cardinality({j \in 1..n :
                                records[j].search_volume
                                    <= records[i].search_volume})
                   f     == percentiles[i]
               IN  /\ f.den > 0
                   /\ f.num * n = 100 * count * f.den
                   /\ f.num > 0
                   /\ f.num <= 100 * f.den

\* a snapshot with duplicate volumes, not all equal, was analyzed
C5_Witness ==
    /\ pc = "placed"
    /\ \E i, j, k \in 1..Len(records) :
         /\ i # j
         /\ records[i].search_volume = records[j].search_volume
         /\ records[k].search_volume > records[i].search_volume
         /\ percentiles[i].num * 3 = 200 * percentiles[i].den

\* the positions of the output with the given target
Members(target) ==
    {k \in 1..Len(placements) : placements[k].placement = target}

\* the members of a target in the order of their priority numbers
ByPriority(target) ==
    [j \in 1..Cardinality(Members(target)) |->
        placements[CHOOSE k \in Members(target) : placements[k].priority = j]]

\* C6: after analyze, the k members of each target have the priorities 1..k,
\* each once (none keeps 0); within a target a larger search_volume has a
\* smaller priority number, and members of equal search_volume have their
\* priorities in snapshot input order.
C6_PriorityPerTarget ==
    pc = "placed" =>
        \A t \in 1..Len(PlacementTarget) :
            LET target == PlacementTarget[t]
                M      == Members(target)
            IN  /\ \A j \in 1..Cardinality(M) :
                       Cardinality({k \in M : placements[k].priority = j}) = 1
                /\ \A a, b \in M :
                       placements[a].search_volume > placements[b].search_volume
                           => placements[a].priority < placements[b].priority
                /\ \A v \in {placements[k].search_volume : k \in M} :
                       LET outs == SelectSeq(ByPriority(target),
                                             LAMBDA p : p.search_volume = v)
                           ins  == SelectSeq(records,
                                       LAMBDA r :
                                           /\ r.search_volume = v
                                           /\ \E k \in M :
                                                Copied(placements[k]) = Copied(r))
                       IN  /\ Len(outs) = Len(ins)
                           /\ \A k \in 1..Len(outs) :
                                  Copied(outs[k]) = Copied(ins[k])

\* a target holds members of two volumes, and two different members of equal
\* volume
C6_Witness ==
    /\ pc = "placed"
    /\ \E a, b, c \in Members("bullets") :
         /\ placements[a].search_volume > placements[b].search_volume
         /\ placements[b].search_volume = placements[c].search_volume
         /\ Copied(placements[b]) # Copied(placements[c])
         /\ placements[b].priority < placements[c].priority

\* C7: the output lists all TITLE placements first, then BULLETS, then
\* BACKEND, then DESCRIPTION, and inside each group the priority values
\* strictly increase from the first member to the last.
C7_GroupedThenPriority ==
    pc = "placed" =>
        \A k \in 1..(Len(placements) - 1) :
            LET rank(p) == CHOOSE t \in 1..Len(PlacementTarget) :
                               PlacementTarget[t] = p.placement
                a == placements[k]
                b == placements[k + 1]
            IN  /\ rank(a) <= rank(b)
                /\ rank(a) = rank(b) => a.priority < b.priority

\* three targets occur, one of them with several members, and the snapshot
\* did not arrive in output order
C7_Witness ==
    /\ pc = "placed"
    /\ Members("title") # {}
    /\ Cardinality(Members("bullets")) >= 2
    /\ Members("description") # {}
    /\ records[1].search_volume < records[2].search_volume
    /\ placements[1].placement = "title"
    /\ placements[Len(placements)].placement = "description"

-----------------------------------------------------------------------------
(* More properties of DiagnosticAnalyzer (Spec): absent price flags. *)

\* None where price_flags is the empty list, the empty list where it is None
OtherAbsentFlags == [present |-> ~price_flags.present, items |-> <<>>]

\* C14: analyze(snapshot, None) and analyze(snapshot, []) return identical
\* sequences, and neither contains a diagnostic of type PRICE_PROBLEM.
C14_NoneSameAsEmptyList ==
    (pc = "diagnosed" /\ price_flags.items = <<>>) =>
        /\ diagnostics =
               DiagnosticAnalyzer_analyze(thresholds, records, OtherAbsentFlags)
        /\ \A k \in 1..Len(diagnostics) :
               diagnostics[k].diagnostic_type # "price_problem"
        /\ \A k \in 1..Len(has_price_flags) : ~has_price_flags[k]

\* analyze ran with the empty list on a snapshot holding a record that only
\* the missing flag keeps from being a price problem
C14_Witness ==
    /\ pc = "diagnosed"
    /\ price_flags = [present |-> TRUE, items |-> <<>>]
    /\ \E k \in 1..Len(diagnostics) :
         /\ diagnostics[k].diagnostic_type = "healthy"
         /\ diagnostics[k].impressions_share
                >= thresholds.price_problem_min_imp_share
    /\ \E k \in 1..Len(diagnostics) : diagnostics[k].diagnostic_type = "ghost"

-----------------------------------------------------------------------------
(* Properties of the summaries (Spec, SpecPlace). *)

\* the number of elements of a result list that satisfy a test
CountOf(seq, Test(_)) == Cardinality({k \in 1..Len(seq) : Test(seq[k])})

\* C11: summarize of a list of diagnostics returns total = the length of the
\* list, and ghost, window_shopper, price_problem and healthy each equal to
\* the number of diagnostics of that type, so the four counts sum to total.
C11_DiagnosticSummaryCounts ==
    pc = "diagnosed" =>
        /\ diag_summary.total = Len(diagnostics)
        /\ diag_summary.ghost =
               CountOf(diagnostics, LAMBDA d : d.diagnostic_type = "ghost")
        /\ diag_summary.window_shopper =
               CountOf(diagnostics,
                       LAMBDA d : d.diagnostic_type = "window_shopper")
        /\ diag_summary.price_problem =
               CountOf(diagnostics,
                       LAMBDA d : d.diagnostic_type = "price_problem")
        /\ diag_summary.healthy =
               CountOf(diagnostics, LAMBDA d : d.diagnostic_type = "healthy")
        /\ diag_summary.ghost + diag_summary.window_shopper
               + diag_summary.price_problem + diag_summary.healthy
           = diag_summary.total

\* a summary of three diagnostics of three types, one of them a price problem
C11_Witness ==
    /\ pc = "diagnosed"
    /\ diag_summary.total = 3
    /\ diag_summary.price_problem = 1
    /\ diag_summary.ghost = 1
    /\ diag_summary.healthy = 1

\* C12: analyze returns exactly one placement per record, and summarize of
\* that output returns total = the number of records, each of title, bullets,
\* backend and description equal to the number of placements with that
\* target, and the four counts sum to total.
C12_PlacementSummaryCounts ==
    pc = "placed" =>
        /\ Len(placements) = Len(records)
        /\ \A r \in {records[k] : k \in 1..Len(records)} :
               CountOf(placements, LAMBDA p : Copied(p) = Copied(r))
                   = CountOf(records, LAMBDA x : Copied(x) = Copied(r))
        /\ place_summary.total = Len(records)
        /\ place_summary.title =
               CountOf(placements, LAMBDA p : p.placement = "title")
        /\ place_summary.bullets =
               CountOf(placements, LAMBDA p : p.placement = "bullets")
        /\ place_summary.backend =
               CountOf(placements, LAMBDA p : p.placement = "backend")
        /\ place_summary.description =
               CountOf(placements, LAMBDA p : p.placement = "description")
        /\ place_summary.title + place_summary.bullets + place_summary.backend
               + place_summary.description
           = place_summary.total

\* a summary of a snapshot whose records went to three targets, backend
\* among them
C12_Witness ==
    /\ pc = "placed"
    /\ Len(records) >= 4
    /\ place_summary.title >= 1
    /\ place_summary.backend >= 1
    /\ place_summary.description >= 1

-----------------------------------------------------------------------------
(* Properties of the percentile bands of the targets (SpecPlace). *)

\* the largest search_volume of the snapshot
MaxVolume == CHOOSE v \in {records[k].search_volume : k \in 1..Len(records)} :
                 \A k \in 1..Len(records) : records[k].search_volume <= v

\* 100 * (records of the snapshot with search_volume <= p's) / (records),
\* as the fraction <<numerator, denominator>>
PercentileIn(p) ==
    <<100 * Cardinality({k \in 1..Len(records) :
                            records[k].search_volume <= p.search_volume}),
      Len(records)>>

\* lo <= percentile < hi
InBand(pct, lo, hi) == lo * pct[2] <= pct[1] /\ pct[1] < hi * pct[2]

\* C20: in a non-empty snapshot every record of the largest search_volume has
\* percentile 100 and, the top threshold being at most 100, is placed in
\* TITLE whatever its clicks_share; the output starts with a TITLE placement
\* of priority 1; a snapshot of one single volume is placed in TITLE entirely.
C20_MaxVolumeIsTitle ==
    (pc = "placed" /\ Len(records) > 0
        /\ thresholds.title_top_volume_percentile <= 100) =>
        /\ \A k \in 1..Len(records) :
               records[k].search_volume = MaxVolume
                   => percentiles[k].num = 100 * percentiles[k].den
        /\ \A k \in 1..Len(placements) :
               placements[k].search_volume = MaxVolume
                   => placements[k].placement = "title"
        /\ placements[1].placement = "title"
        /\ placements[1].priority = 1
        /\ (\A k \in 1..Len(records) : records[k].search_volume = MaxVolume)
               => \A k \in 1..Len(placements) :
                      placements[k].placement = "title"

\* two records share the largest volume, one of them without clicks and not
\* first in the snapshot, and a smaller record went elsewhere
C20_Witness ==
    /\ pc = "placed"
    /\ Len(records) >= 3
    /\ records[1].search_volume < MaxVolume
    /\ \E a, b \in 1..Len(placements) :
         /\ a # b
         /\ placements[a].search_volume = MaxVolume
         /\ placements[b].search_volume = MaxVolume
         /\ placements[a].clicks_share < thresholds.title_min_click_share
         /\ placements[a].placement = "title"
    /\ \E k \in 1..Len(placements) : placements[k].placement # "title"

\* C19: with the default thresholds a keyword is placed in BULLETS only when
\* its volume percentile is >= 50 and < 80, in BACKEND only when it is >= 20
\* and < 50, and in DESCRIPTION only when it is below 20.
C19_TargetBands ==
    (pc = "placed" /\ thresholds = DefaultThresholds) =>
        \A k \in 1..Len(placements) :
            LET p   == placements[k]
                pct == PercentileIn(p)
            IN  /\ p.placement = "bullets" => InBand(pct, 50, 80)
                /\ p.placement = "backend" => InBand(pct, 20, 50)
                /\ p.placement = "description" => InBand(pct, 0, 20)

-----------------------------------------------------------------------------
(* Properties of the whole analysis (SpecRuns). *)

\* C13: on a snapshot of zero records DiagnosticAnalyzer.analyze (with or
\* without price flags) and PlacementRecommender.analyze return the empty
\* sequence, and summarize of it returns total = 0 and every count = 0, for
\* both analyzers.
C13_EmptySnapshot ==
    Len(records) = 0 =>
        /\ diag_runs > 0 =>
               /\ diagnostics = <<>>
               /\ diag_summary = [total |-> 0, ghost |-> 0, window_shopper |-> 0,
                                  price_problem |-> 0, healthy |-> 0]
        /\ place_runs > 0 =>
               /\ placements = <<>>
               /\ place_summary = [total |-> 0, title |-> 0, bullets |-> 0,
                                   backend |-> 0, description |-> 0]

\* both analyzers ran on the empty snapshot, with price flags given
C13_Witness ==
    /\ Len(records) = 0
    /\ diag_runs > 0
    /\ place_runs > 0
    /\ Len(price_flags.items) > 0

\* C15: on a snapshot of exactly one record, whatever its search_volume (0
\* included) and clicks_share, analyze computes percentile 100 and, with the
\* default thresholds, returns a single placement, TITLE with priority 1.
C15_SingletonIsTitle ==
    (Len(records) = 1 /\ place_runs > 0 /\ thresholds = DefaultThresholds) =>
        /\ Len(percentiles) = 1
        /\ percentiles[1].num = 100 * percentiles[1].den
        /\ Len(placements) = 1
        /\ placements[1].placement = "title"
        /\ placements[1].priority = 1
        /\ Copied(placements[1]) = Copied(records[1])

\* the single record has search_volume 0 and no clicks
C15_Witness ==
    /\ Len(records) = 1
    /\ place_runs > 0
    /\ records[1].search_volume = 0
    /\ records[1].clicks_share < thresholds.title_min_click_share
    /\ placements[1].placement = "title"

C18_HeadersAreKeys ==
    /\ \A i \in 1..Len(diagnostics) :
           LET d == KeywordDiagnostic_to_dict(diagnostics[i])
           IN  /\ \A j \in 1..Len(diagnostics_headers) :
                      /\ diagnostics_headers[j] \in DOMAIN d
                      /\ pc = "written" =>
                             sheet_diagnostics[i + 1][j] = d[diagnostics_headers[j]]
               /\ DOMAIN d = DOMAIN KeywordDiagnostic_to_dict(diagnostics[1])
    /\ \A i \in 1..Len(placements) :
           LET p == KeywordPlacement_to_dict(placements[i])
           IN  /\ \A j \in 1..Len(placements_headers) :
                      /\ placements_headers[j] \in DOMAIN p
                      /\ pc = "written" =>
                             sheet_placements[i + 1][j] = p[placements_headers[j]]
               /\ DOMAIN p = DOMAIN KeywordPlacement_to_dict(placements[1])

\* both tabs were written, with the header row and several records each
C18_Witness ==
    /\ pc = "written"
    /\ Len(sheet_diagnostics) = Len(diagnostics) + 1
    /\ Len(sheet_placements) = Len(placements) + 1
    /\ Len(diagnostics) >= 2
    /\ sheet_diagnostics[1] = diagnostics_headers
    /\ sheet_placements[1] = placements_headers
    /\ sheet_diagnostics[2][3] # sheet_diagnostics[3][3]

-----------------------------------------------------------------------------
(* Properties of the placement of longer snapshots (SpecPlaceAscending). *)

\* the position of a placement's target in TITLE, BULLETS, BACKEND,
\* DESCRIPTION
TargetRank(p) ==
    CHOOSE t \in 1..Len(PlacementTarget) : PlacementTarget[t] = p.placement

-----------------------------------------------------------------------------
(* Properties of single diagnostics (SpecOneRecord). *)

\* C22: with the default thresholds every diagnostic analyze produces agrees
\* in its two classifications: GHOST comes with rank status INVISIBLE,
\* WINDOW_SHOPPER with PAGE_1_HIGH or TOP_3, and PRICE_PROBLEM with a rank
\* status other than INVISIBLE.
C22_TypeAgreesWithRank ==
    (pc = "diagnosed" /\ thresholds = DefaultThresholds) =>
        \A k \in 1..Len(diagnostics) :
            LET d == diagnostics[k]
            IN  /\ d.diagnostic_type = "ghost" => d.rank_status = "invisible"
                /\ d.diagnostic_type = "window_shopper"
                       => d.rank_status \in {"page_1_high", "top_3"}
                /\ d.diagnostic_type = "price_problem"
                       => d.rank_status # "invisible"

\* a price problem at the lowest impressions share it can have, with clicks
\* that alone would rank it otherwise
C22_Witness ==
    /\ pc = "diagnosed"
    /\ Len(diagnostics) = 1
    /\ diagnostics[1].diagnostic_type = "price_problem"
    /\ diagnostics[1].impressions_share = thresholds.price_problem_min_imp_share
    /\ diagnostics[1].rank_status = "page_1_low"
    /\ diagnostics[1].clicks_share = 0

-----------------------------------------------------------------------------
(* More properties of the pure methods (SpecFn): overlap of the rules. *)

\* the three rules in each of their six orders
RuleOrders ==
    {o \in [1..3 -> {"ghost", "window_shopper", "price_problem"}] :
        \A i, j \in 1..3 : o[i] = o[j] => i = j}

\* the type returned when the rules are tried in the order o; holds maps a
\* rule to whether its condition holds
FirstMatchIn(o, holds) ==
    IF holds[o[1]] THEN o[1]
    ELSE IF holds[o[2]] THEN o[2]
    ELSE IF holds[o[3]] THEN o[3]
    ELSE "healthy"

\* C23: with the default thresholds no record satisfies the GHOST condition
\* together with the WINDOW_SHOPPER or the PRICE_PROBLEM condition; only
\* WINDOW_SHOPPER and PRICE_PROBLEM can hold together, so trying the rules in
\* another order gives a result other than diagnose's only for that pair.
C23_OnlyWindowShopperOverlapsPrice ==
    (call.fn = "diagnose" /\ thresholds = DefaultThresholds) =>
        LET g == GhostCond(thresholds, call.record)
            w == WindowShopperCond(thresholds, call.record)
            p == PriceProblemCond(thresholds, call.record, call.has_price_flag)
            holds == [rule \in {"ghost", "window_shopper", "price_problem"} |->
                         CASE rule = "ghost" -> g
                           [] rule = "window_shopper" -> w
                           [] OTHER -> p]
        IN  /\ ~(g /\ w)
            /\ ~(g /\ p)
            /\ \A o \in RuleOrders :
                   FirstMatchIn(o, holds) # call.result => (w /\ p)

\* a record for which WINDOW_SHOPPER and PRICE_PROBLEM both hold, diagnosed
\* as the earlier of the two, at a volume and click share where GHOST would
\* hold but for the impressions share
C23_Witness ==
    /\ call.fn = "diagnose"
    /\ thresholds = DefaultThresholds
    /\ WindowShopperCond(thresholds, call.record)
    /\ PriceProblemCond(thresholds, call.record, call.has_price_flag)
    /\ call.record.search_volume >= thresholds.ghost_min_volume
    /\ call.result = "window_shopper"

-----------------------------------------------------------------------------
(* More properties of DiagnosticAnalyzer.analyze (Spec): what of a flag     *)
(* counts.                                                                  *)

\* C24: the price-flag test of analyze looks only at the flag's
\* search_query: a flag of any severity (OK included) and any asin (also one
\* that is not the record's) makes has_price_flag true for every record of
\* the snapshot with that search_query, and such a record with
\* impressions_share >= price_problem_min_imp_share that matches neither GHOST
\* nor WINDOW_SHOPPER is reported as PRICE_PROBLEM.
C24_FlagCountsByQueryOnly ==
    pc = "diagnosed" =>
        \A j \in 1..Len(price_flags.items) :
            LET f == price_flags.items[j]
            IN  /\ \A i \in 1..Len(records) :
                       records[i].search_query = f.search_query
                           => has_price_flags[i]
                /\ \A k \in 1..Len(diagnostics) :
                       LET d == diagnostics[k]
                       IN  ( /\ d.search_query = f.search_query
                             /\ d.impressions_share
                                    >= thresholds.price_problem_min_imp_share
                             /\ ~GhostCond(thresholds, d)
                             /\ ~WindowShopperCond(thresholds, d) )
                           => d.diagnostic_type = "price_problem"

\* the only flags are of severity OK and of another asin than the records';
\* two records of the flagged query got has_price_flag and one of them is a
\* price problem
C24_Witness ==
    /\ pc = "diagnosed"
    /\ Len(price_flags.items) > 0
    /\ \A j \in 1..Len(price_flags.items) :
         /\ price_flags.items[j].severity = "ok"
         /\ \A i \in 1..Len(records) :
                records[i].asin # price_flags.items[j].asin
    /\ \E a, b \in 1..Len(records) :
         /\ a # b
         /\ has_price_flags[a]
         /\ has_price_flags[b]
         /\ records[a] # records[b]
    /\ \E k \in 1..Len(diagnostics) :
         diagnostics[k].diagnostic_type = "price_problem"
    /\ \E i \in 1..Len(records) : ~has_price_flags[i]

-----------------------------------------------------------------------------
(* More properties of PlacementRecommender.analyze (SpecPlace): the targets *)
(* of short snapshots.                                                      *)

\* C25: with the default thresholds every record's percentile is at least
\* 100/n in a snapshot of n records, so analyze assigns DESCRIPTION only in
\* snapshots of more than 5 records and BACKEND or lower only in snapshots of
\* more than 2 records; in a snapshot of at most 2 records every placement is
\* TITLE or BULLETS.
C25_LowTargetsNeedLongSnapshots ==
    (pc = "placed" /\ thresholds = DefaultThresholds) =>
        LET n == Len(records)
        IN  /\ \A k \in 1..Len(percentiles) :
                   percentiles[k].num * n >= 100 * percentiles[k].den
            /\ \A k \in 1..Len(placements) :
                   /\ placements[k].placement = "description" => n > 5
                   /\ placements[k].placement \in {"backend", "description"}
                          => n > 2
                   /\ n <= 2 => placements[k].placement \in {"title", "bullets"}

\* a snapshot of six records with a DESCRIPTION and a BACKEND placement
C25_Witness ==
    /\ pc = "placed"
    /\ Len(records) = 6
    /\ \E k \in 1..Len(placements) : placements[k].placement = "description"
    /\ \E k \in 1..Len(placements) : placements[k].placement = "backend"

-----------------------------------------------------------------------------
(* Properties of calculate_health_score (SpecHealth). *)

\* the count a summary holds under a key, 0 when the key is missing
CountIn(summary, key) == IF key \in DOMAIN summary THEN summary[key] ELSE 0

\* the summary with the count under key raised by one
OneMore(summary, key) ==
    [k \in DOMAIN summary \cup {key} |->
        IF k = key THEN CountIn(summary, key) + 1 ELSE summary[k]]

\* a <= b for fractions of positive denominators
FracLE(a, b) == a.num * b.den <= b.num * a.den

\* C26: calculate_health_score returns a value in [0, 100] for all
\* non-negative counts: 0, without dividing, when total is 0, and otherwise
\* max(0, min(100, 100*bread_butter/total - 30*leaks/total
\*                 - min(20*price_flagged/total, 20)));
\* the price penalty never exceeds 20, and one more leak or one more price
\* flag, the other inputs fixed, never raises the score.
C26_HealthScore ==
    call.fn = "calculate_health_score" =>
        LET total   == CountIn(call.categories, "total")
            bb      == CountIn(call.categories, "bread_butter")
            leaks   == CountIn(call.categories, "leaks")
            flagged == CountIn(call.prices, "total_flagged")
            score   == call.result
            \* total * (base score - leak penalty - price penalty)
            capped  == IF 20 * flagged > 20 * total THEN 20 * total
                       ELSE 20 * flagged
            raw     == 100 * bb - 30 * leaks - capped
            clamped == IF raw < 0 THEN 0
                       ELSE IF raw > 100 * total THEN 100 * total ELSE raw
        IN  /\ score.den > 0
            /\ 0 <= score.num
            /\ score.num <= 100 * score.den
            /\ total = 0 => score.num = 0
            /\ total # 0 => score.num * total = clamped * score.den
            /\ total # 0 =>
                   FracLE(health_price_penalty(flagged, total), Frac(20, 1))
            /\ FracLE(calculate_health_score(OneMore(call.categories, "leaks"),
                                             call.prices),
                      score)
            /\ FracLE(calculate_health_score(call.categories,
                                             OneMore(call.prices, "total_flagged")),
                      score)

\* more price flags than keywords, some leaks, and a score strictly between
\* 0 and 100
C26_Witness ==
    /\ call.fn = "calculate_health_score"
    /\ CountIn(call.categories, "total") > 1
    /\ CountIn(call.prices, "total_flagged") > CountIn(call.categories, "total")
    /\ CountIn(call.categories, "leaks") > 0
    /\ call.result.num > 0
    /\ call.result.num < 100 * call.result.den

-----------------------------------------------------------------------------
(* Properties of wait_for_report (SpecWait). *)

\* the payloads after which wait_for_report returns at once
TerminalPayload(st, doc) ==
    \/ st = "DONE" /\ doc # PyNone /\ doc # ""
    \/ st = "FATAL"
    \/ st = "CANCELLED"

\* what holds in every state of a call of wait_for_report
WaitForReportInv ==
    /\ wait_result = "True" =>
           /\ wait_pc = "returned"
           /\ status = "DONE"
           /\ doc_id # PyNone /\ doc_id # ""
           /\ <<status, doc_id>> \in observed
    /\ status \in {"FATAL", "CANCELLED"} =>
           /\ wait_pc = "returned"
           /\ wait_result = "False"
    /\ (wait_pc = "loop" /\ observed # {}) => ~TerminalPayload(status, doc_id)
    /\ (wait_pc = "returned" /\ ~TerminalPayload(status, doc_id)) =>
           /\ wait_result = "False"
           /\ elapsed >= max_wait
    /\ \A payload \in observed :
           TerminalPayload(payload[1], payload[2])
               => (wait_pc = "returned" /\ payload = <<status, doc_id>>)

\* C27: wait_for_report returns True only after a poll that observed DONE
\* with a non-empty document id; it returns False as soon as a poll observes
\* FATAL or CANCELLED; after a poll that observed DONE without a document id,
\* IN_QUEUE, IN_PROGRESS or anything else polling continues, and a call that
\* only ever sees such polls ends, at the timeout, with False.
C27_WaitForReport ==
    /\ []WaitForReportInv
    /\ (wait_pc = "loop") ~> (wait_pc = "returned")

\* a call returned False at the timeout after several polls that all
\* observed DONE without a document id
C27_Witness ==
    /\ wait_pc = "returned"
    /\ wait_result = "False"
    /\ observed = {<<"DONE", PyNone>>, <<"DONE", "">>}
    /\ elapsed >= max_wait
    /\ max_wait > 2 * check_interval

====
